---- MODULE Spec2Model ----
(***************************************************************************)
(* The user resource client of go-jira (user.go): seven operations, each   *)
(* building one request through the client collaborator and returning the  *)
(* decoded result, the response handle and an error.                       *)
(*                                                                         *)
(* Spec     : one caller; every action is one whole call of an operation.  *)
(* SpecConc : several FindWithContext calls interleaved statement by       *)
(*            statement over a heap of slice backing arrays.               *)
(***************************************************************************)
EXTENDS Integers, Sequences, FiniteSets, TLC

VARIABLES last, pc, local, heap, touched

vars == <<last, pc, local, heap, touched>>

(***************************************************************************)
(* Bounds                                                                  *)
(***************************************************************************)
MaxTweaks == 3
MaxTweaksConc == 3

(***************************************************************************)
(* Values                                                                  *)
(***************************************************************************)
\* Go's nil (pointer, slice, interface, error).
Nil == [kind |-> "nil"]

\* context.Background()
Background == "background"

Contexts == {"ctx"}

\* JSON values as they stand on the wire.
JStr(s) == [t |-> "string", v |-> s]
JBool(b) == [t |-> "bool", v |-> b]
JArr(a) == [t |-> "array", v |-> a]

\* The zero value of the User struct.
ZeroUser ==
    [ kind            |-> "User",
      Self            |-> "",
      AccountID       |-> "",
      AccountType     |-> "",
      Name            |-> "",
      Key             |-> "",
      Password        |-> "",
      EmailAddress    |-> "",
      AvatarUrls      |-> <<>>,
      DisplayName     |-> "",
      Active          |-> FALSE,
      TimeZone        |-> "",
      Locale          |-> "",
      ApplicationKeys |-> <<>> ]

\* The struct tags with Password given a key like the other fields.
UserJSONKeyPassword ==
    [ Self            |-> "self",
      AccountID       |-> "accountId",
      AccountType     |-> "accountType",
      Name            |-> "name",
      Key             |-> "key",
      Password        |-> "password",
      EmailAddress    |-> "emailAddress",
      AvatarUrls      |-> "avatarUrls",
      DisplayName     |-> "displayName",
      Active          |-> "active",
      TimeZone        |-> "timeZone",
      Locale          |-> "locale",
      ApplicationKeys |-> "applicationKeys" ]

\* The JSON key of every field of User that has one; Password is tagged "-".
UserJSONKey ==
    [ Self            |-> "self",
      AccountID       |-> "accountId",
      AccountType     |-> "accountType",
      Name            |-> "name",
      Key             |-> "key",
      EmailAddress    |-> "emailAddress",
      AvatarUrls      |-> "avatarUrls",
      DisplayName     |-> "displayName",
      Active          |-> "active",
      TimeZone        |-> "timeZone",
      Locale          |-> "locale",
      ApplicationKeys |-> "applicationKeys" ]

\* The JSON type the Go type of each field of User encodes to and decodes
\* from.
UserJSONType ==
    [ Self            |-> "string",
      AccountID       |-> "string",
      AccountType     |-> "string",
      Name            |-> "string",
      Key             |-> "string",
      Password        |-> "string",
      EmailAddress    |-> "string",
      AvatarUrls      |-> "object",
      DisplayName     |-> "string",
      Active          |-> "bool",
      TimeZone        |-> "string",
      Locale          |-> "string",
      ApplicationKeys |-> "array" ]

\* omitempty: false, "" and an empty slice are left out; a struct never is.
OmitEmpty(t, v) ==
    CASE t = "string" -> v = ""
      [] t = "bool"   -> v = FALSE
      [] t = "array"  -> v = <<>>
      [] OTHER        -> FALSE

\* encoding/json on a User, driven by the struct tags: the set of
\* (key, value) members of the JSON object sent as the request body.
MarshalUser(u) ==
    { [key |-> UserJSONKey[f], val |-> [t |-> UserJSONType[f], v |-> u[f]]] :
        f \in { g \in DOMAIN UserJSONKey : ~OmitEmpty(UserJSONType[g], u[g]) } }

(***************************************************************************)
(* The client collaborator: request builder, executor, error wrapper       *)
(***************************************************************************)
\* Outcomes of building a request.
NewRequestOutcomes == {"ok", "fail"}

\* client.NewRequestWithContext: the request bound to ctx, with the body
\* (when one is given) encoded to JSON, or an error.
NewRequestWithContext(ctx, method, urlStr, body, nr) ==
    IF nr = "fail"
    THEN [req |-> Nil, err |-> [kind |-> "error", msg |-> "new request"]]
    ELSE [req |-> [kind   |-> "Request",
                   ctx    |-> ctx,
                   method |-> method,
                   url    |-> urlStr,
                   body   |-> IF body = Nil THEN Nil
                              ELSE [kind |-> "json", members |-> MarshalUser(body)]],
          err |-> Nil]

\* A response handle: status, the body document and whether reading the
\* body stream to its end fails.
Response(status, body, readFails) ==
    [kind |-> "Response", status |-> status, body |-> body, readFails |-> readFails]

\* client.Do: executes req once. v is the value to decode the response into
\* (Nil for none). The outcome d is the network's and the server's:
\*   neterr    no response, an error
\*   httperr   a response with a non-success status, an error
\*   decodeerr a success status whose body does not decode into v, an error
\*   ok        a success status; v is filled with the decoded value
Do(req, v, d) ==
    CASE d.t = "neterr" ->
           [resp |-> Nil, err |-> [kind |-> "error", msg |-> "transport"], v |-> v]
      [] d.t = "httperr" ->
           [resp |-> Response(d.status, d.body, d.readFails),
            err  |-> [kind |-> "error", msg |-> "status"], v |-> v]
      [] d.t = "decodeerr" /\ v # Nil ->
           [resp |-> Response(d.status, d.body, d.readFails),
            err  |-> [kind |-> "error", msg |-> "decode"], v |-> v]
      [] OTHER ->
           [resp |-> Response(d.status, d.body, d.readFails),
            err  |-> Nil,
            v    |-> IF v = Nil THEN Nil ELSE d.decoded]

\* NewJiraError: the error wrapped with the response it came with.
NewJiraError(resp, err) ==
    [kind |-> "jiraError", resp |-> resp, cause |-> err]

\* fmt.Errorf with a fixed message.
Errorf(msg) == [kind |-> "error", msg |-> msg]

(***************************************************************************)
(* Decoding the create response                                            *)
(***************************************************************************)
\* ioutil.ReadAll(resp.Body)
ReadAll(resp) ==
    IF resp.readFails
    THEN [data |-> Nil, err |-> Errorf("read")]
    ELSE [data |-> resp.body, err |-> Nil]

\* The fields of User a member of a JSON object is decoded into: the field
\* whose tag is the member's key. Password has no tag and matches no key.
FieldsOf(m) == { f \in DOMAIN UserJSONKey : UserJSONKey[f] = m.key }

\* Unmarshal taking zero bytes for a document that says nothing.
UnmarshalLenient(data, u) ==
    CASE data.j = "invalid" ->
           [err |-> Errorf("syntax"), user |-> u]
      [] data.j \in {"null", "empty"} ->
           [err |-> Nil, user |-> u]
      [] data.j \in {"string", "array"} ->
           [err |-> Errorf("type"), user |-> u]
      [] OTHER ->
           LET fits(m, f) == m.val.t = UserJSONType[f]
               bad == \E m \in data.members : \E f \in FieldsOf(m) : ~fits(m, f)
               src(f) == { m \in data.members : f \in FieldsOf(m) /\ fits(m, f) }
           IN [err  |-> IF bad THEN Errorf("type") ELSE Nil,
               user |-> [f \in DOMAIN u |->
                           IF f \in DOMAIN UserJSONKey /\ src(f) # {}
                           THEN (CHOOSE m \in src(f) : TRUE).val.v
                           ELSE u[f]]]

\* json.Unmarshal(data, responseUser) for the documents
\*   empty    zero bytes                 -> error
\*   invalid  not JSON                   -> error
\*   null     the JSON null              -> no error, nothing written
\*   string   a JSON string              -> error (not an object)
\*   array    a JSON array               -> error (not an object)
\*   object   members (key, value)       -> each member with the key of a
\*            tagged field is written to that field when its type fits and
\*            is a type error otherwise; the other members are skipped.
Unmarshal(data, u) ==
    CASE data.j \in {"empty", "invalid"} ->
           [err |-> Errorf("syntax"), user |-> u]
      [] data.j = "null" ->
           [err |-> Nil, user |-> u]
      [] data.j \in {"string", "array"} ->
           [err |-> Errorf("type"), user |-> u]
      [] OTHER ->
           LET fits(m, f) == m.val.t = UserJSONType[f]
               bad == \E m \in data.members : \E f \in FieldsOf(m) : ~fits(m, f)
               src(f) == { m \in data.members : f \in FieldsOf(m) /\ fits(m, f) }
           IN [err  |-> IF bad THEN Errorf("type") ELSE Nil,
               user |-> [f \in DOMAIN u |->
                           IF f \in DOMAIN UserJSONKey /\ src(f) # {}
                           THEN (CHOOSE m \in src(f) : TRUE).val.v
                           ELSE u[f]]]

(***************************************************************************)
(* Slices of search parameters                                             *)
(***************************************************************************)
\* A heap is a sequence of backing arrays; an array is named by its index.
\* A slice is [arr, len, cap]: the first len of the cap cells of heap[arr].
ZeroParam == [name |-> "", value |-> ""]

Elems(h, s) == SubSeq(h[s.arr], 1, s.len)

\* n cells holding the zero value.
RECURSIVE Zeros(_)
Zeros(n) == IF n <= 0 THEN <<>> ELSE Append(Zeros(n - 1), ZeroParam)

\* The capacity append grows a full slice to (Go doubles small slices).
GrowCap(cap) == IF cap = 0 THEN 1 ELSE cap + cap

\* append(s, x): in place when the backing array has room, otherwise into a
\* new backing array holding a copy of the elements.
GoAppend(h, s, x) ==
    IF s.len < s.cap
    THEN [heap  |-> [h EXCEPT ![s.arr][s.len + 1] = x],
          slice |-> [s EXCEPT !.len = s.len + 1],
          used  |-> {s.arr}]
    ELSE LET newcap == GrowCap(s.cap)
             fresh  == Append(Elems(h, s), x) \o Zeros(newcap - s.len - 1)
         IN [heap  |-> Append(h, fresh),
             slice |-> [arr |-> Len(h) + 1, len |-> s.len + 1, cap |-> newcap],
             used  |-> {s.arr, Len(h) + 1}]

\* fmt.Sprintf("%d", n)
Digit(d) ==
    CASE d = 0 -> "0" [] d = 1 -> "1" [] d = 2 -> "2" [] d = 3 -> "3"
      [] d = 4 -> "4" [] d = 5 -> "5" [] d = 6 -> "6" [] d = 7 -> "7"
      [] d = 8 -> "8" [] OTHER -> "9"

RECURSIVE Decimal(_)
Decimal(n) == IF n < 10 THEN Digit(n) ELSE Decimal(n \div 10) \o Digit(n % 10)

SprintfD(n) == IF n < 0 THEN "-" \o Decimal(-n) ELSE Decimal(n)

\* fmt.Sprintf("%t", b)
SprintfT(b) == IF b THEN "true" ELSE "false"

\* The closures the four search modifiers return, applied to slice s.
WithMaxResults(maxResults, h, s) ==
    GoAppend(h, s, [name |-> "maxResults", value |-> SprintfD(maxResults)])

WithStartAt(startAt, h, s) ==
    GoAppend(h, s, [name |-> "startAt", value |-> SprintfD(startAt)])

WithActive(active, h, s) ==
    GoAppend(h, s, [name |-> "includeActive", value |-> SprintfT(active)])

WithInactive(inactive, h, s) ==
    GoAppend(h, s, [name |-> "includeInactive", value |-> SprintfT(inactive)])

\* A userSearchF value f applied to s: search = f(search).
ApplyTweak(f, h, s) ==
    CASE f.f = "WithMaxResults" -> WithMaxResults(f.n, h, s)
      [] f.f = "WithStartAt"    -> WithStartAt(f.n, h, s)
      [] f.f = "WithActive"     -> WithActive(f.b, h, s)
      [] OTHER                  -> WithInactive(f.b, h, s)

\* The literal replaced by a slice over one backing array, with spare
\* capacity, that every call starts from.
SearchLiteralShared(h, property) ==
    IF Len(h) = 0
    THEN [heap  |-> << <<[name |-> "username", value |-> property],
                         ZeroParam, ZeroParam, ZeroParam>> >>,
          slice |-> [arr |-> 1, len |-> 1, cap |-> 4],
          used  |-> {1}]
    ELSE [heap  |-> [h EXCEPT ![1][1] = [name |-> "username", value |-> property]],
          slice |-> [arr |-> 1, len |-> 1, cap |-> Len(h[1])],
          used  |-> {1}]

\* search := []userSearchParam{{name: "username", value: property}}
SearchLiteral(h, property) ==
    [heap  |-> Append(h, <<[name |-> "username", value |-> property]>>),
     slice |-> [arr |-> Len(h) + 1, len |-> 1, cap |-> 1],
     used  |-> {Len(h) + 1}]

\* for _, f := range tweaks { search = f(search) }, from tweak i on.
RECURSIVE RangeTweaks(_, _, _, _)
RangeTweaks(tweaks, i, h, s) ==
    IF i > Len(tweaks) THEN [heap |-> h, slice |-> s]
    ELSE LET a == ApplyTweak(tweaks[i], h, s)
         IN RangeTweaks(tweaks, i + 1, a.heap, a.slice)

\* One turn of the query string loop.
QueryStep(queryString, param) ==
    queryString \o param.name \o "=" \o param.value \o "&"

\* for _, param := range search { queryString += ... }, from element j on.
RECURSIVE RangeSearch(_, _, _)
RangeSearch(params, j, queryString) ==
    IF j > Len(params) THEN queryString
    ELSE RangeSearch(params, j + 1, QueryStep(queryString, params[j]))

\* The endpoint with the query string's last character left in place.
SearchEndpointNoTrim(queryString) ==
    "/rest/api/2/user/search?" \o queryString

\* fmt.Sprintf("/rest/api/2/user/search?%s", queryString[:len(queryString)-1])
SearchEndpoint(queryString) ==
    "/rest/api/2/user/search?" \o SubSeq(queryString, 1, Len(queryString) - 1)

(***************************************************************************)
(* The operations. Each returns what the Go method returns plus log, the   *)
(* calls it made on the collaborator and on the response body, in order.   *)
(* nr and d are the outcomes of building and of executing the request.     *)
(***************************************************************************)
NewRequestEv(ctx, method, url, body) ==
    [f |-> "NewRequestWithContext", ctx |-> ctx, method |-> method,
     url |-> url, body |-> body]

DoEv(req, v) == [f |-> "Do", req |-> req, v |-> v]

CloseEv == [f |-> "Body.Close"]

ReadAllEv == [f |-> "ReadAll"]

WrapEv == [f |-> "NewJiraError"]

Return3(result, resp, err, log) ==
    [result |-> result, resp |-> resp, err |-> err, log |-> log]

Return2(resp, err, log) == [resp |-> resp, err |-> err, log |-> log]

GetWithContext(ctx, username, nr, d) ==
    LET apiEndpoint == "/rest/api/2/user?username=" \o username
        r  == NewRequestWithContext(ctx, "GET", apiEndpoint, Nil, nr)
        l1 == <<NewRequestEv(ctx, "GET", apiEndpoint, Nil)>>
    IN IF r.err # Nil THEN Return3(Nil, Nil, r.err, l1)
       ELSE LET user == ZeroUser
                x    == Do(r.req, user, d)
                l2   == Append(l1, DoEv(r.req, user))
            IN IF x.err # Nil
               THEN Return3(Nil, x.resp, NewJiraError(x.resp, x.err), Append(l2, WrapEv))
               ELSE Return3(x.v, x.resp, Nil, l2)

Get(username, nr, d) == GetWithContext(Background, username, nr, d)

GetByAccountIDWithContext(ctx, accountID, nr, d) ==
    LET apiEndpoint == "/rest/api/2/user?accountId=" \o accountID
        r  == NewRequestWithContext(ctx, "GET", apiEndpoint, Nil, nr)
        l1 == <<NewRequestEv(ctx, "GET", apiEndpoint, Nil)>>
    IN IF r.err # Nil THEN Return3(Nil, Nil, r.err, l1)
       ELSE LET user == ZeroUser
                x    == Do(r.req, user, d)
                l2   == Append(l1, DoEv(r.req, user))
            IN IF x.err # Nil
               THEN Return3(Nil, x.resp, NewJiraError(x.resp, x.err), Append(l2, WrapEv))
               ELSE Return3(x.v, x.resp, Nil, l2)

GetByAccountID(accountID, nr, d) ==
    GetByAccountIDWithContext(Background, accountID, nr, d)

CreateWithContext(ctx, user, nr, d) ==
    LET apiEndpoint == "/rest/api/2/user"
        r  == NewRequestWithContext(ctx, "POST", apiEndpoint, user, nr)
        l1 == <<NewRequestEv(ctx, "POST", apiEndpoint, user)>>
    IN IF r.err # Nil THEN Return3(Nil, Nil, r.err, l1)
       ELSE LET x  == Do(r.req, Nil, d)
                l2 == Append(l1, DoEv(r.req, Nil))
            IN IF x.err # Nil THEN Return3(Nil, x.resp, x.err, l2)
               ELSE LET responseUser == ZeroUser
                        rd == ReadAll(x.resp)
                        l3 == Append(l2, ReadAllEv)
                    IN IF rd.err # Nil
                       THEN Return3(Nil, x.resp,
                                    NewJiraError(x.resp, Errorf("could not read the returned data")),
                                    l3 \o <<WrapEv, CloseEv>>)
                       ELSE LET um == Unmarshal(rd.data, responseUser)
                            IN IF um.err # Nil
                               THEN Return3(Nil, x.resp,
                                            NewJiraError(x.resp, Errorf("could not unmarshall the data into struct")),
                                            l3 \o <<WrapEv, CloseEv>>)
                               ELSE Return3(um.user, x.resp, Nil, Append(l3, CloseEv))

Create(user, nr, d) == CreateWithContext(Background, user, nr, d)

\* DeleteWithContext executing the request a second time when the first
\* execution fails.
DeleteWithContextRetry(ctx, username, nr, d) ==
    LET apiEndpoint == "/rest/api/2/user?username=" \o username
        r  == NewRequestWithContext(ctx, "DELETE", apiEndpoint, Nil, nr)
        l1 == <<NewRequestEv(ctx, "DELETE", apiEndpoint, Nil)>>
    IN IF r.err # Nil THEN Return2(Nil, r.err, l1)
       ELSE LET x  == Do(r.req, Nil, d)
                l2 == Append(l1, DoEv(r.req, Nil))
            IN IF x.err # Nil
               THEN Return2(x.resp, NewJiraError(x.resp, x.err),
                            l2 \o <<DoEv(r.req, Nil), WrapEv>>)
               ELSE Return2(x.resp, Nil, l2)

DeleteWithContext(ctx, username, nr, d) ==
    LET apiEndpoint == "/rest/api/2/user?username=" \o username
        r  == NewRequestWithContext(ctx, "DELETE", apiEndpoint, Nil, nr)
        l1 == <<NewRequestEv(ctx, "DELETE", apiEndpoint, Nil)>>
    IN IF r.err # Nil THEN Return2(Nil, r.err, l1)
       ELSE LET x  == Do(r.req, Nil, d)
                l2 == Append(l1, DoEv(r.req, Nil))
            IN IF x.err # Nil
               THEN Return2(x.resp, NewJiraError(x.resp, x.err), Append(l2, WrapEv))
               ELSE Return2(x.resp, Nil, l2)

Delete(username, nr, d) == DeleteWithContext(Background, username, nr, d)

\* new([]UserGroup): a pointer to a slice of groups.
NewUserGroups == [kind |-> "UserGroups", list |-> <<>>]

GetGroupsWithContext(ctx, username, nr, d) ==
    LET apiEndpoint == "/rest/api/2/user/groups?username=" \o username
        r  == NewRequestWithContext(ctx, "GET", apiEndpoint, Nil, nr)
        l1 == <<NewRequestEv(ctx, "GET", apiEndpoint, Nil)>>
    IN IF r.err # Nil THEN Return3(Nil, Nil, r.err, l1)
       ELSE LET userGroups == NewUserGroups
                x  == Do(r.req, userGroups, d)
                l2 == Append(l1, DoEv(r.req, userGroups))
            IN IF x.err # Nil
               THEN Return3(Nil, x.resp, NewJiraError(x.resp, x.err), Append(l2, WrapEv))
               ELSE Return3(x.v, x.resp, Nil, l2)

GetGroups(username, nr, d) == GetGroupsWithContext(Background, username, nr, d)

\* GetSelfWithContext wrapping the construction error as well.
GetSelfWithContextWrapped(ctx, nr, d) ==
    LET apiEndpoint == "rest/api/2/myself"
        r  == NewRequestWithContext(ctx, "GET", apiEndpoint, Nil, nr)
        l1 == <<NewRequestEv(ctx, "GET", apiEndpoint, Nil)>>
    IN IF r.err # Nil THEN Return3(Nil, Nil, NewJiraError(Nil, r.err), Append(l1, WrapEv))
       ELSE LET user == ZeroUser
                x    == Do(r.req, user, d)
                l2   == Append(l1, DoEv(r.req, user))
            IN IF x.err # Nil
               THEN Return3(Nil, x.resp, NewJiraError(x.resp, x.err), Append(l2, WrapEv))
               ELSE Return3(x.v, x.resp, Nil, l2)

GetSelfWithContext(ctx, nr, d) ==
    LET apiEndpoint == "rest/api/2/myself"
        r  == NewRequestWithContext(ctx, "GET", apiEndpoint, Nil, nr)
        l1 == <<NewRequestEv(ctx, "GET", apiEndpoint, Nil)>>
    IN IF r.err # Nil THEN Return3(Nil, Nil, r.err, l1)
       ELSE LET user == ZeroUser
                x    == Do(r.req, user, d)
                l2   == Append(l1, DoEv(r.req, user))
            IN IF x.err # Nil
               THEN Return3(Nil, x.resp, NewJiraError(x.resp, x.err), Append(l2, WrapEv))
               ELSE Return3(x.v, x.resp, Nil, l2)

GetSelf(nr, d) == GetSelfWithContext(Background, nr, d)

\* users := []User{}
EmptyUsers == [kind |-> "Users", list |-> <<>>]

\* FindWithContext returning users next to the error of a failed execution.
FindRequestPartial(ctx, apiEndpoint, nr, d) ==
    LET r  == NewRequestWithContext(ctx, "GET", apiEndpoint, Nil, nr)
        l1 == <<NewRequestEv(ctx, "GET", apiEndpoint, Nil)>>
    IN IF r.err # Nil THEN Return3(Nil, Nil, r.err, l1)
       ELSE LET users == EmptyUsers
                x     == Do(r.req, users, d)
                l2    == Append(l1, DoEv(r.req, users))
            IN IF x.err # Nil
               THEN Return3(x.v, x.resp, NewJiraError(x.resp, x.err), Append(l2, WrapEv))
               ELSE Return3(x.v, x.resp, Nil, l2)

\* FindWithContext from the built endpoint on: the request, its execution
\* and the return.
FindRequest(ctx, apiEndpoint, nr, d) ==
    LET r  == NewRequestWithContext(ctx, "GET", apiEndpoint, Nil, nr)
        l1 == <<NewRequestEv(ctx, "GET", apiEndpoint, Nil)>>
    IN IF r.err # Nil THEN Return3(Nil, Nil, r.err, l1)
       ELSE LET users == EmptyUsers
                x     == Do(r.req, users, d)
                l2    == Append(l1, DoEv(r.req, users))
            IN IF x.err # Nil
               THEN Return3(Nil, x.resp, NewJiraError(x.resp, x.err), Append(l2, WrapEv))
               ELSE Return3(x.v, x.resp, Nil, l2)

\* FindWithContext run over heap h.
FindOn(h, ctx, property, tweaks, nr, d) ==
    LET lit         == SearchLiteral(h, property)
        rt          == RangeTweaks(tweaks, 1, lit.heap, lit.slice)
        queryString == RangeSearch(Elems(rt.heap, rt.slice), 1, "")
    IN FindRequest(ctx, SearchEndpoint(queryString), nr, d)

FindWithContext(ctx, property, tweaks, nr, d) ==
    FindOn(<<>>, ctx, property, tweaks, nr, d)

Find(property, tweaks, nr, d) == FindWithContext(Background, property, tweaks, nr, d)

(***************************************************************************)
(* Inputs and outcomes                                                     *)
(***************************************************************************)
SeqsUpTo(S, n) == UNION { [1..k -> S] : k \in 0..n }

Usernames == {"", "jdoe", "j&d=x"}

Users ==
    { [ZeroUser EXCEPT !.Name = n, !.Password = p, !.Active = a] :
        n \in {"", "jdoe"}, p \in {"", "secret", "hunter2"}, a \in BOOLEAN }

IntVals == {-1, 10}

Modifiers ==
    { [f |-> "WithMaxResults", n |-> i] : i \in IntVals } \cup
    { [f |-> "WithStartAt", n |-> i] : i \in IntVals } \cup
    { [f |-> "WithActive", b |-> x] : x \in BOOLEAN } \cup
    { [f |-> "WithInactive", b |-> x] : x \in BOOLEAN }

TweakLists == SeqsUpTo(Modifiers, MaxTweaks)

\* Response bodies of the create endpoint.
ObjectDocs ==
    { [j |-> "object", members |-> n \cup p \cup a \cup e] :
        n \in { {}, {[key |-> "name", val |-> JStr("jdoe")]} },
        p \in { {}, {[key |-> "password", val |-> JStr("hunter2")]},
                    {[key |-> "password", val |-> JStr("leaked")]} },
        a \in { {}, {[key |-> "active", val |-> JBool(TRUE)]},
                    {[key |-> "active", val |-> JStr("yes")]} },
        e \in { {}, {[key |-> "extra", val |-> JStr("z")]} } }

Documents ==
    { [j |-> "empty"], [j |-> "invalid"], [j |-> "null"], [j |-> "string"],
      [j |-> "array"] } \cup ObjectDocs

ErrorDoc == [j |-> "object", members |-> {[key |-> "errorMessages", val |-> JArr(<<"no">>)]}]

Jane == [ZeroUser EXCEPT !.AccountID = "abc", !.DisplayName = "Jane Doe", !.Active = TRUE]

Admins == [Self |-> "https://jira/group?groupname=admins", Name |-> "admins"]

Devs == [Self |-> "", Name |-> "devs"]

\* What a success body can decode to, by the value v it is decoded into.
DecodedFor(v) ==
    CASE v.kind = "User"       -> {ZeroUser, Jane}
      [] v.kind = "UserGroups" ->
           { [kind |-> "UserGroups", list |-> l] : l \in {<<>>, <<Admins>>, <<Devs, Admins>>} }
      [] OTHER ->
           { [kind |-> "Users", list |-> l] : l \in {<<>>, <<Jane>>} }

\* The body of a response Do has decoded.
Consumed == [j |-> "consumed"]

DoOutcomes(v) ==
    { [t |-> "neterr"] } \cup
    { [t |-> "httperr", status |-> 404, body |-> ErrorDoc, readFails |-> FALSE] } \cup
    IF v = Nil
    THEN { [t |-> "ok", status |-> st, body |-> b, readFails |-> rf] :
             st \in {200, 201}, b \in Documents, rf \in BOOLEAN }
    ELSE { [t |-> "decodeerr", status |-> 200, body |-> Consumed, readFails |-> FALSE] } \cup
         { [t |-> "ok", status |-> 200, body |-> Consumed, readFails |-> FALSE,
            decoded |-> x] : x \in DecodedFor(v) }

\* The outcomes of one call: the request is executed only when it was built.
Outcomes(v) ==
    { [nr |-> "fail", d |-> Nil] } \cup { [nr |-> "ok", d |-> d] : d \in DoOutcomes(v) }

(***************************************************************************)
(* Spec: one caller, one action per exported method                        *)
(***************************************************************************)
CallGetWithContext ==
    /\ last.op = "none"
    /\ \E ctx \in Contexts, username \in Usernames, o \in Outcomes(ZeroUser) :
           /\ last' = [op |-> "Get", via |-> "GetWithContext", in |-> [ctx |-> ctx, username |-> username],
                       nr |-> o.nr, d |-> o.d,
                       out |-> GetWithContext(ctx, username, o.nr, o.d)]
           /\ UNCHANGED <<pc, local, heap, touched>>

CallGet ==
    /\ last.op = "none"
    /\ \E username \in Usernames, o \in Outcomes(ZeroUser) :
           /\ last' = [op |-> "Get", via |-> "Get", in |-> [ctx |-> Background, username |-> username],
                       nr |-> o.nr, d |-> o.d,
                       out |-> Get(username, o.nr, o.d)]
           /\ UNCHANGED <<pc, local, heap, touched>>

CallGetByAccountIDWithContext ==
    /\ last.op = "none"
    /\ \E ctx \in Contexts, accountID \in Usernames, o \in Outcomes(ZeroUser) :
           /\ last' = [op |-> "GetByAccountID", via |-> "GetByAccountIDWithContext", in |-> [ctx |-> ctx, accountID |-> accountID],
                       nr |-> o.nr, d |-> o.d,
                       out |-> GetByAccountIDWithContext(ctx, accountID, o.nr, o.d)]
           /\ UNCHANGED <<pc, local, heap, touched>>

CallGetByAccountID ==
    /\ last.op = "none"
    /\ \E accountID \in Usernames, o \in Outcomes(ZeroUser) :
           /\ last' = [op |-> "GetByAccountID", via |-> "GetByAccountID", in |-> [ctx |-> Background, accountID |-> accountID],
                       nr |-> o.nr, d |-> o.d,
                       out |-> GetByAccountID(accountID, o.nr, o.d)]
           /\ UNCHANGED <<pc, local, heap, touched>>

CallCreateWithContext ==
    /\ last.op = "none"
    /\ \E ctx \in Contexts, user \in Users, o \in Outcomes(Nil) :
           /\ last' = [op |-> "Create", via |-> "CreateWithContext", in |-> [ctx |-> ctx, user |-> user],
                       nr |-> o.nr, d |-> o.d,
                       out |-> CreateWithContext(ctx, user, o.nr, o.d)]
           /\ UNCHANGED <<pc, local, heap, touched>>

CallCreate ==
    /\ last.op = "none"
    /\ \E user \in Users, o \in Outcomes(Nil) :
           /\ last' = [op |-> "Create", via |-> "Create", in |-> [ctx |-> Background, user |-> user],
                       nr |-> o.nr, d |-> o.d,
                       out |-> Create(user, o.nr, o.d)]
           /\ UNCHANGED <<pc, local, heap, touched>>

CallDeleteWithContext ==
    /\ last.op = "none"
    /\ \E ctx \in Contexts, username \in Usernames, o \in Outcomes(Nil) :
           /\ last' = [op |-> "Delete", via |-> "DeleteWithContext", in |-> [ctx |-> ctx, username |-> username],
                       nr |-> o.nr, d |-> o.d,
                       out |-> DeleteWithContext(ctx, username, o.nr, o.d)]
           /\ UNCHANGED <<pc, local, heap, touched>>

CallDelete ==
    /\ last.op = "none"
    /\ \E username \in Usernames, o \in Outcomes(Nil) :
           /\ last' = [op |-> "Delete", via |-> "Delete", in |-> [ctx |-> Background, username |-> username],
                       nr |-> o.nr, d |-> o.d,
                       out |-> Delete(username, o.nr, o.d)]
           /\ UNCHANGED <<pc, local, heap, touched>>

CallGetGroupsWithContext ==
    /\ last.op = "none"
    /\ \E ctx \in Contexts, username \in Usernames, o \in Outcomes(NewUserGroups) :
           /\ last' = [op |-> "GetGroups", via |-> "GetGroupsWithContext", in |-> [ctx |-> ctx, username |-> username],
                       nr |-> o.nr, d |-> o.d,
                       out |-> GetGroupsWithContext(ctx, username, o.nr, o.d)]
           /\ UNCHANGED <<pc, local, heap, touched>>

CallGetGroups ==
    /\ last.op = "none"
    /\ \E username \in Usernames, o \in Outcomes(NewUserGroups) :
           /\ last' = [op |-> "GetGroups", via |-> "GetGroups", in |-> [ctx |-> Background, username |-> username],
                       nr |-> o.nr, d |-> o.d,
                       out |-> GetGroups(username, o.nr, o.d)]
           /\ UNCHANGED <<pc, local, heap, touched>>

CallGetSelfWithContext ==
    /\ last.op = "none"
    /\ \E ctx \in Contexts, o \in Outcomes(ZeroUser) :
           /\ last' = [op |-> "GetSelf", via |-> "GetSelfWithContext", in |-> [ctx |-> ctx],
                       nr |-> o.nr, d |-> o.d,
                       out |-> GetSelfWithContext(ctx, o.nr, o.d)]
           /\ UNCHANGED <<pc, local, heap, touched>>

CallGetSelf ==
    /\ last.op = "none"
    /\ \E o \in Outcomes(ZeroUser) :
           /\ last' = [op |-> "GetSelf", via |-> "GetSelf", in |-> [ctx |-> Background],
                       nr |-> o.nr, d |-> o.d,
                       out |-> GetSelf(o.nr, o.d)]
           /\ UNCHANGED <<pc, local, heap, touched>>

CallFindWithContext ==
    /\ last.op = "none"
    /\ \E ctx \in Contexts, property \in Usernames, tweaks \in TweakLists,
          o \in Outcomes(EmptyUsers) :
           /\ last' = [op |-> "Find", via |-> "FindWithContext", in |-> [ctx |-> ctx, property |-> property, tweaks |-> tweaks],
                       nr |-> o.nr, d |-> o.d,
                       out |-> FindWithContext(ctx, property, tweaks, o.nr, o.d)]
           /\ UNCHANGED <<pc, local, heap, touched>>

CallFind ==
    /\ last.op = "none"
    /\ \E property \in Usernames, tweaks \in TweakLists, o \in Outcomes(EmptyUsers) :
           /\ last' = [op |-> "Find", via |-> "Find", in |-> [ctx |-> Background, property |-> property, tweaks |-> tweaks],
                       nr |-> o.nr, d |-> o.d,
                       out |-> Find(property, tweaks, o.nr, o.d)]
           /\ UNCHANGED <<pc, local, heap, touched>>

Calls == {"c1", "c2"}

Init ==
    /\ last = [op |-> "none"]
    /\ pc = [c \in Calls |-> "idle"]
    /\ local = [c \in Calls |-> Nil]
    /\ heap = <<>>
    /\ touched = <<>>

\* The caller takes the result; the service keeps nothing of the call.
Forget ==
    /\ last.op # "none"
    /\ last' = [op |-> "none"]
    /\ UNCHANGED <<pc, local, heap, touched>>

Next ==
    \/ Forget
    \/ CallGetWithContext
    \/ CallGet
    \/ CallGetByAccountIDWithContext
    \/ CallGetByAccountID
    \/ CallCreateWithContext
    \/ CallCreate
    \/ CallDeleteWithContext
    \/ CallDelete
    \/ CallGetGroupsWithContext
    \/ CallGetGroups
    \/ CallGetSelfWithContext
    \/ CallGetSelf
    \/ CallFindWithContext
    \/ CallFind

Spec == Init /\ [][Next]_vars

(***************************************************************************)
(* SpecConc: FindWithContext calls interleaved statement by statement.     *)
(* All calls allocate from one heap; touched[a] is the set of calls that   *)
(* have read or written backing array a.                                   *)
(***************************************************************************)
ConcOutcomes ==
    { [nr |-> "fail", d |-> Nil], [nr |-> "ok", d |-> [t |-> "neterr"]],
      [nr |-> "ok", d |-> [t |-> "ok", status |-> 200, body |-> Consumed, readFails |-> FALSE,
                           decoded |-> [kind |-> "Users", list |-> <<Jane>>]]] }

ConcProperties == {"jdoe", "adm"}

ConcModifiers ==
    { [f |-> "WithMaxResults", n |-> 10] }

\* touched after call c used the arrays in used, over a heap of n arrays.
Touch(t, n, used, c) ==
    [a \in 1..n |-> (IF a <= Len(t) THEN t[a] ELSE {}) \cup (IF a \in used THEN {c} ELSE {})]

\* Entry of the call and its first statement, the slice literal.
FindStart(c) ==
    /\ pc[c] = "idle"
    /\ \E property \in ConcProperties, tweaks \in SeqsUpTo(ConcModifiers, MaxTweaksConc) :
          LET lit == SearchLiteral(heap, property)
          IN /\ heap' = lit.heap
             /\ touched' = Touch(touched, Len(lit.heap), lit.used, c)
             /\ local' = [local EXCEPT ![c] =
                            [kind |-> "frame", property |-> property, tweaks |-> tweaks,
                             search |-> lit.slice, i |-> 1, queryString |-> "", j |-> 1]]
    /\ pc' = [pc EXCEPT ![c] = "tweaks"]
    /\ UNCHANGED last

\* One turn of the loop over tweaks: search = f(search).
FindTweak(c) ==
    /\ pc[c] = "tweaks"
    /\ local[c].i <= Len(local[c].tweaks)
    /\ LET a == ApplyTweak(local[c].tweaks[local[c].i], heap, local[c].search)
       IN /\ heap' = a.heap
          /\ touched' = Touch(touched, Len(a.heap), a.used, c)
          /\ local' = [local EXCEPT ![c].search = a.slice, ![c].i = @ + 1]
    /\ UNCHANGED <<pc, last>>

\* The loop over tweaks ends.
FindTweaksEnd(c) ==
    /\ pc[c] = "tweaks"
    /\ local[c].i > Len(local[c].tweaks)
    /\ pc' = [pc EXCEPT ![c] = "query"]
    /\ UNCHANGED <<local, heap, touched, last>>

\* One turn of the loop over search: the parameter is read from the heap.
FindQuery(c) ==
    /\ pc[c] = "query"
    /\ local[c].j <= local[c].search.len
    /\ local' = [local EXCEPT
                   ![c].queryString = QueryStep(@, heap[local[c].search.arr][local[c].j]),
                   ![c].j = @ + 1]
    /\ touched' = Touch(touched, Len(heap), {local[c].search.arr}, c)
    /\ UNCHANGED <<pc, heap, last>>

\* The loop over search ends; the request is built, executed and returned.
FindFinish(c) ==
    /\ pc[c] = "query"
    /\ local[c].j > local[c].search.len
    /\ \E o \in ConcOutcomes :
          local' = [local EXCEPT ![c] =
                      [kind |-> "returned", property |-> local[c].property,
                       tweaks |-> local[c].tweaks, nr |-> o.nr, d |-> o.d,
                       out |-> FindRequest("ctx", SearchEndpoint(local[c].queryString),
                                           o.nr, o.d)]]
    /\ pc' = [pc EXCEPT ![c] = "done"]
    /\ UNCHANGED <<heap, touched, last>>

NextConc ==
    \E c \in Calls :
        \/ FindStart(c)
        \/ FindTweak(c)
        \/ FindTweaksEnd(c)
        \/ FindQuery(c)
        \/ FindFinish(c)

SpecConc == Init /\ [][NextConc]_vars

(***************************************************************************)
(* Properties                                                              *)
(***************************************************************************)
Returned == last.op # "none"

Built == Returned /\ last.nr = "ok"

\* The execution of the request returned an error.
DoFailed == Built /\ last.d.t \in {"neterr", "httperr", "decodeerr"}

HasResult == Returned /\ last.op # "Delete"

\* The number of calls of f in the log of the call.
Count(f) == Cardinality({ i \in DOMAIN last.out.log : last.out.log[i].f = f })

\* The arguments of the call that built the request.
Built1 == last.out.log[1]

IntText(n) == IF n = 10 THEN "10" ELSE "-1"

BoolText(b) == IF b THEN "true" ELSE "false"

\* The parameter a modifier stands for, as name=value.
Pair(m) ==
    CASE m.f = "WithMaxResults" -> "maxResults=" \o IntText(m.n)
      [] m.f = "WithStartAt"    -> "startAt=" \o IntText(m.n)
      [] m.f = "WithActive"     -> "includeActive=" \o BoolText(m.b)
      [] OTHER                  -> "includeInactive=" \o BoolText(m.b)

RECURSIVE Pairs(_)
Pairs(tweaks) ==
    IF tweaks = <<>> THEN "" ELSE "&" \o Pair(Head(tweaks)) \o Pairs(Tail(tweaks))

\* C1: Find and FindWithContext request the search endpoint with the query
\* string username=<property> followed by one &name=value per modifier, in
\* the caller's order, repeated modifiers repeated, and nothing after it.
C1_QueryString ==
    last.op = "Find" =>
        /\ Built1.url = "/rest/api/2/user/search?username=" \o last.in.property
                            \o Pairs(last.in.tweaks)
        /\ last.in.tweaks = <<>> =>
              Built1.url = "/rest/api/2/user/search?username=" \o last.in.property

\* A find whose caller gave the same modifier twice, after another one.
C1_Witness ==
    /\ last.op = "Find"
    /\ Len(last.in.tweaks) = 3
    /\ last.in.tweaks[2] = last.in.tweaks[3]
    /\ last.in.tweaks[1].f = "WithStartAt"
    /\ last.in.tweaks[2].f = "WithMaxResults"
    /\ last.in.property = "jdoe"
    /\ Built1.url = "/rest/api/2/user/search?username=jdoe&startAt=-1&maxResults=10&maxResults=10"

\* C2: whenever the request was built and its execution returned an error,
\* the error the operation returns is that error wrapped by NewJiraError.
C2_AlwaysWrapped ==
    DoFailed => /\ last.out.err.kind = "jiraError"
                /\ last.out.err.cause.msg \in {"transport", "status", "decode"}

\* C3: an operation with a result returns either a result and no error or
\* no result and an error; a successful find returns a sequence, empty or
\* not; get-groups on an empty array returns the empty sequence; delete
\* returns no error exactly when the request was built and executed well.
C3_NoPartialSuccess ==
    /\ HasResult =>
          \/ last.out.result # Nil /\ last.out.err = Nil
          \/ last.out.result = Nil /\ last.out.err # Nil
    /\ (last.op = "Find" /\ Built /\ last.d.t = "ok") =>
          /\ last.out.err = Nil
          /\ last.out.result.kind = "Users"
          /\ last.out.result.list = last.d.decoded.list
    /\ (last.op = "GetGroups" /\ Built /\ last.d.t = "ok" /\ last.d.decoded.list = <<>>) =>
          /\ last.out.err = Nil
          /\ last.out.result = [kind |-> "UserGroups", list |-> <<>>]
    /\ last.op = "Delete" => (last.out.err = Nil <=> (Built /\ ~DoFailed))

\* A find that succeeded with no user found.
C3_Witness ==
    /\ last.op = "Find"
    /\ Built
    /\ last.d.t = "ok"
    /\ last.out.result = [kind |-> "Users", list |-> <<>>]
    /\ last.out.err = Nil

\* C4: a call builds one request and executes it once when it was built,
\* also when the execution fails, and never when it was not built.
C4_OneExchange ==
    Returned =>
        /\ Count("NewRequestWithContext") = 1
        /\ Count("Do") = (IF Built THEN 1 ELSE 0)

\* A delete whose only execution failed.
C4_Witness ==
    /\ last.op = "Delete"
    /\ DoFailed
    /\ Count("Do") = 1

\* The method and the path up to its input, by operation.
Method(op) ==
    CASE op = "Create" -> "POST" [] op = "Delete" -> "DELETE" [] OTHER -> "GET"

PathHead(op) ==
    CASE op = "Get"            -> "/rest/api/2/user?username="
      [] op = "GetByAccountID" -> "/rest/api/2/user?accountId="
      [] op = "Create"         -> "/rest/api/2/user"
      [] op = "Delete"         -> "/rest/api/2/user?username="
      [] op = "GetGroups"      -> "/rest/api/2/user/groups?username="
      [] op = "GetSelf"        -> "/rest/api/2/myself"
      [] OTHER                 -> "/rest/api/2/user/search?"

\* C5: every operation requests the method and path listed for it, every
\* path starts with /rest/api/2/, and only create passes a body.
C5_MethodAndPath ==
    Returned =>
        /\ Built1.method = Method(last.op)
        /\ Len(Built1.url) >= Len(PathHead(last.op))
        /\ SubSeq(Built1.url, 1, Len(PathHead(last.op))) = PathHead(last.op)
        /\ SubSeq(Built1.url, 1, 12) = "/rest/api/2/"
        /\ (Built1.body # Nil) <=> (last.op = "Create")

\* A body that is no JSON document of a User: nothing, not JSON, a JSON
\* string or array, or an object whose active or name has the wrong type.
NotAUser(doc) ==
    \/ doc.j \in {"empty", "invalid", "string", "array"}
    \/ /\ doc.j = "object"
       /\ \E m \in doc.members :
             \/ m.key = "active" /\ m.val.t # "bool"
             \/ m.key = "name" /\ m.val.t # "string"

\* C6: a create whose execution succeeded but whose body cannot be read, is
\* empty or is no JSON document of a User returns no user and the wrapped
\* read or decode error.
C6_CreateBadBody ==
    (last.op = "Create" /\ Built /\ last.d.t = "ok") =>
        /\ last.d.readFails =>
              /\ last.out.result = Nil
              /\ last.out.err.kind = "jiraError"
              /\ last.out.err.cause.msg = "could not read the returned data"
        /\ (~last.d.readFails /\ NotAUser(last.d.body)) =>
              /\ last.out.result = Nil
              /\ last.out.err.kind = "jiraError"
              /\ last.out.err.cause.msg = "could not unmarshall the data into struct"

\* A create answered 201 with an empty body.
C6_Witness ==
    /\ last.op = "Create"
    /\ Built
    /\ last.d.t = "ok"
    /\ last.d.status = 201
    /\ ~last.d.readFails
    /\ last.d.body.j = "empty"
    /\ last.out.err.kind = "jiraError"

\* The request as it was executed.
Sent == last.out.log[2].req

Passwords == {"", "secret", "hunter2", "other"}

\* The body d answers with, its password member replaced by the members q.
WithServerPassword(d, q) ==
    [d EXCEPT !.body.members = { m \in @ : m.key # "password" } \cup q]

ServerPasswords ==
    { {} } \cup { {[key |-> "password", val |-> JStr(p)]} : p \in Passwords }

\* C7: the body create sends has no password member and the user it returns
\* has no password; neither the body sent nor what is returned changes with
\* the password given or with the password member of the answer.
C7_PasswordConfidential ==
    last.op = "Create" =>
        /\ Built => \A m \in Sent.body.members : m.key # "password"
        /\ last.out.result # Nil => last.out.result.Password = ""
        /\ \A p \in Passwords :
              LET alt == CreateWithContext(last.in.ctx, [last.in.user EXCEPT !.Password = p],
                                           last.nr, last.d)
              IN /\ alt.result = last.out.result
                 /\ alt.err = last.out.err
                 /\ Built => alt.log[2].req = Sent
        /\ (Built /\ last.d.t = "ok" /\ last.d.body.j = "object") =>
              \A q \in ServerPasswords :
                 LET alt == CreateWithContext(last.in.ctx, last.in.user, last.nr,
                                              WithServerPassword(last.d, q))
                 IN /\ alt.result = last.out.result
                    /\ (alt.err = Nil) <=> (last.out.err = Nil)
                    /\ alt.log[2].req = Sent

\* A create with a password, answered with a user object carrying one.
C7_Witness ==
    /\ last.op = "Create"
    /\ last.in.user.Password = "secret"
    /\ last.in.user.Name = "jdoe"
    /\ Built
    /\ last.d.t = "ok"
    /\ ~last.d.readFails
    /\ last.d.body.j = "object"
    /\ [key |-> "password", val |-> JStr("leaked")] \in last.d.body.members
    /\ [key |-> "name", val |-> JStr("jdoe")] \in Sent.body.members
    /\ last.out.result # Nil
    /\ last.out.result.Name = "jdoe"

\* C8: when the request cannot be built the operation returns the error of
\* the builder as it is, no result and no response, and executes nothing.
C8_ConstructionFailure ==
    (Returned /\ last.nr = "fail") =>
        /\ last.out.err = [kind |-> "error", msg |-> "new request"]
        /\ last.out.resp = Nil
        /\ HasResult => last.out.result = Nil
        /\ Count("Do") = 0
        /\ Count("NewJiraError") = 0

\* A current-user lookup whose request could not be built.
C8_Witness ==
    /\ last.op = "GetSelf"
    /\ last.nr = "fail"
    /\ last.out.resp = Nil
    /\ last.out.err.kind = "error"

\* C9: every return of create after the request was executed has closed the
\* body of the response it returns exactly once.
C9_ClosedOnce ==
    (last.op = "Create" /\ Built /\ last.out.resp # Nil) => Count("Body.Close") = 1

\* The elements a call running alone holds after its first n tweaks.
Alone(property, tweaks, n) ==
    LET lit == SearchLiteral(<<>>, property)
        rt  == RangeTweaks(SubSeq(tweaks, 1, n), 1, lit.heap, lit.slice)
    IN Elems(rt.heap, rt.slice)

\* C10: under every interleaving each call reads and writes only backing
\* arrays no other call touches, holds the parameters it would hold running
\* alone, and returns what it would return running alone.
C10_Independent ==
    /\ \A a \in DOMAIN touched : Cardinality(touched[a]) <= 1
    /\ \A c \in Calls :
          /\ pc[c] \in {"tweaks", "query"} =>
                Elems(heap, local[c].search) =
                    Alone(local[c].property, local[c].tweaks, local[c].i - 1)
          /\ pc[c] = "done" =>
                local[c].out = FindWithContext("ctx", local[c].property, local[c].tweaks,
                                               local[c].nr, local[c].d)

\* Two calls with the same three modifiers have both returned.
C10_Witness ==
    /\ \A c \in Calls :
          /\ pc[c] = "done"
          /\ Len(local[c].tweaks) = 3
          /\ local[c].nr = "ok"
    /\ local["c1"].property # local["c2"].property
    /\ local["c1"].out.log[1].url =
          "/rest/api/2/user/search?username=jdoe&maxResults=10&maxResults=10&maxResults=10"
    /\ \E a \in DOMAIN touched : touched[a] = {"c2"}

====
